---- MODULE Spec2Model ----
\* State-machine model of the go-dht driver (DHT22 / AM2302 / DHT11):
\* readBits (pulse capture and frame decoding), bitsToValues (validation and
\* unit conversion), Read (minimum-interval scheduling), ReadRetry and
\* ReadBackground.
\*
\* Time is kept in milliseconds, on a grain of half a second; pulse durations
\* are kept in microseconds.  Floating point readings are kept as integer
\* numerators over ValueScale (a reading v is stored as v * 50), which
\* represents every result of bitsToValues exactly.
EXTENDS Integers, Sequences, FiniteSets, TLC

\* ------------------------------------------------------------------ bounds
\* Time since an instant is tracked up to MaxElapsedTicks half seconds.
MaxElapsedTicks == 5
\* sleepDuration arguments of ReadBackground: 0 and MaxSleepTicks half seconds;
\* the time since startTime is tracked up to the same.
MaxSleepTicks == 5
\* maxRetries arguments of ReadRetry: -1 .. MaxRetries.
MaxRetries == 2
\* The observed count of consecutive failed Reads is tracked up to MaxFails.
MaxFails == 1
\* Failure counts given to the interval computation: 0 .. MaxN.
MaxN == 120
\* The cap of a slot of the busy read, one millisecond, in ticks of its clock.
CapTicks == 3

\* ------------------------------------------------------- program constants
HalfSecondMs == 500
TwoSecondsMs == 2000
ThirtySecondsMs == 30000
WarmUpMs == 1000
NumPulses == 84
DataPulses == 80
HighMaxUs == 90
BitOneUs == 30
LowMaxUs == 70
LowMinUs == 35
SlotCapUs == 1000
DefaultGCPercent == 100
ValueScale == 50

Celsius == "Celsius"
Fahrenheit == "Fahrenheit"
High == "High"
Low == "Low"
NoErr == "nil"
NoOut == "none"
\* Two handles made by NewDHT on two pins.
Handles == {1, 2}
\* Results not returned yet.
NoValues == [humidity |-> 0, temperature |-> 0, err |-> NoOut]
NoBits == [err |-> NoOut, bits |-> <<>>]
\* No capture made yet.
NoCapture == [levels |-> <<>>, durations |-> <<>>]
\* The pulses recorded before the 80 data pulses of a full capture.
HandshakePulses == NumPulses - DataPulses

Min(a, b) == IF a < b THEN a ELSE b

\* --------------------------------------------------------- interval (Read)
\* The minimum interval, in ms, that Read keeps between two capture attempts,
\* from the handle's numErrors.
minInterval_cap58(n) ==
    IF n < 58 THEN TwoSecondsMs + n * HalfSecondMs ELSE ThirtySecondsMs

minInterval(n) ==
    IF n < 57 THEN TwoSecondsMs + n * HalfSecondMs ELSE ThirtySecondsMs

\* ------------------------------------------------- frame decoding (readBits)
\* A capture is a record [levels, durations] of two sequences of NumPulses
\* elements; Go index i is element i + 1.
LevelAt(c, i) == c.levels[i + 1]
DurAt(c, i) == c.durations[i + 1]

\* The scan giving up one index earlier.
lastLow_from80(c, last) ==
    LET scanned == {i \in DataPulses..last : LevelAt(c, i) = Low}
    IN  IF scanned = {} THEN -1
        ELSE CHOOSE i \in scanned : \A j \in scanned : j <= i

\* The backward scan for the last Low pulse, from Go index last down: the scan
\* looks at the indices last, last - 1, ... and gives up after the first index
\* below DataPulses.  The index found, or -1 for "low level not found".
lastLow(c, last) ==
    LET scanned == {i \in (DataPulses - 1)..last : LevelAt(c, i) = Low}
    IN  IF scanned = {} THEN -1
        ELSE CHOOSE i \in scanned : \A j \in scanned : j <= i

\* The loop with a High pulse of exactly HighMaxUs failing too.
checkHighs_ge90(c, startNumber, endNumber) ==
    LET bad == {i \in startNumber..(endNumber - 1) :
                    /\ (i - startNumber) % 2 = 0
                    /\ (LevelAt(c, i) # High \/ DurAt(c, i) >= HighMaxUs)}
        first == CHOOSE i \in bad : \A j \in bad : i <= j
    IN  IF bad = {} THEN NoErr
        ELSE IF LevelAt(c, first) # High THEN "level not high"
        ELSE "high level duration too long"

\* The loop over the High pulses startNumber, startNumber + 2, ... below
\* endNumber: the error of the first pulse that fails a test, or NoErr.
checkHighs(c, startNumber, endNumber) ==
    LET bad == {i \in startNumber..(endNumber - 1) :
                    /\ (i - startNumber) % 2 = 0
                    /\ (LevelAt(c, i) # High \/ DurAt(c, i) > HighMaxUs)}
        first == CHOOSE i \in bad : \A j \in bad : i <= j
    IN  IF bad = {} THEN NoErr
        ELSE IF LevelAt(c, first) # High THEN "level not high"
        ELSE "high level duration too long"

\* The loop over the Low pulses startNumber, startNumber + 2, ... up to
\* endNumber: the error of the first pulse that fails a test, or NoErr.
checkLows(c, startNumber, endNumber) ==
    LET bad == {i \in startNumber..endNumber :
                    /\ (i - startNumber) % 2 = 0
                    /\ \/ LevelAt(c, i) # Low
                       \/ DurAt(c, i) > LowMaxUs
                       \/ DurAt(c, i) < LowMinUs}
        first == CHOOSE i \in bad : \A j \in bad : i <= j
    IN  IF bad = {} THEN NoErr
        ELSE IF LevelAt(c, first) # Low THEN "level not low"
        ELSE IF DurAt(c, first) > LowMaxUs THEN "low level duration too long"
        ELSE "low level duration too short"

\* The bits read off the Low pulses instead.
decodeBits_lows(c, startNumber) ==
    [k \in 1..40 |->
        IF DurAt(c, startNumber + 2 * (k - 1) + 1) > BitOneUs THEN 1 ELSE 0]

\* The 40 bits read off the High pulses startNumber, startNumber + 2, ...
decodeBits(c, startNumber) ==
    [k \in 1..40 |->
        IF DurAt(c, startNumber + 2 * (k - 1)) > BitOneUs THEN 1 ELSE 0]

\* The decoding part of readBits: [err, bits].
decode(c) ==
    LET endNumber == lastLow(c, Len(c.levels) - 1)
        startNumber == endNumber - (DataPulses - 1)
        noBits == [k \in 1..40 |-> 0]
    IN  IF endNumber = -1
            THEN [err |-> "low level not found", bits |-> noBits]
        ELSE IF checkHighs(c, startNumber, endNumber) # NoErr
            THEN [err |-> checkHighs(c, startNumber, endNumber), bits |-> noBits]
        ELSE IF checkLows(c, startNumber + 1, endNumber) # NoErr
            THEN [err |-> checkLows(c, startNumber + 1, endNumber), bits |-> noBits]
        ELSE [err |-> NoErr, bits |-> decodeBits(c, startNumber)]

\* ------------------------------------------------------------ bitsToValues
\* The unsigned integer of bits lo..hi of a frame (Go indices, MSB first).
bitsInt(bits, lo, hi) ==
    LET acc[i \in (lo - 1)..hi] ==
            IF i < lo THEN 0 ELSE 2 * acc[i - 1] + bits[i + 1]
    IN  acc[hi]

\* temperatureInt after "temperatureInt |= ^0xffff" when bit 0x8000 is set:
\* the upper bits of the int are filled with ones.
signExtend(t) == IF t >= 32768 THEN t - 65536 ELSE t

\* sumTotal: the uint8 sum of the four data bytes.
sumTotal(bits) ==
    (bitsInt(bits, 0, 7) + bitsInt(bits, 8, 15)
        + bitsInt(bits, 16, 23) + bitsInt(bits, 24, 31)) % 256

\* [humidity, temperature, err] as bitsToValues returns them on a handle of
\* sensor type st and temperature unit unit; the values are numerators over
\* ValueScale.
bitsToValues(bits, st, unit) ==
    LET humidityInt == bitsInt(bits, 0, 15)
        temperatureInt == signExtend(bitsInt(bits, 16, 31))
        checkSum == bitsInt(bits, 32, 39)
        sumErr == IF checkSum # sumTotal(bits) THEN "check sum fail" ELSE NoErr
        fail(e) == [humidity |-> 0, temperature |-> 0, err |-> e]
    IN  IF st # "dht11"
        THEN IF humidityInt < 0 \/ humidityInt > 1000 THEN fail("bad humidity")
             ELSE IF temperatureInt < -400 \/ temperatureInt > 800
                 THEN fail("bad temperature")
             ELSE [humidity |-> humidityInt * 5,
                   temperature |-> IF unit = Celsius
                                   THEN temperatureInt * 5
                                   ELSE temperatureInt * 9 + 32 * ValueScale,
                   err |-> sumErr]
        ELSE IF humidityInt < 0 \/ humidityInt > 100 THEN fail("bad humidity")
             ELSE IF temperatureInt < 0 \/ temperatureInt > 50
                 THEN fail("bad temperature")
             ELSE [humidity |-> humidityInt * ValueScale,
                   temperature |-> IF unit = Celsius
                                   THEN temperatureInt * ValueScale
                                   ELSE temperatureInt * 90 + 32 * ValueScale,
                   err |-> sumErr]

\* ------------------------------------------------- sensor answers (inputs)
\* The 40-bit frame of a humidity field, a temperature field and a checksum.
toBits(n, w) == [k \in 1..w |-> (n \div (2 ^ (w - k))) % 2]

byteSum(h, t) == ((h \div 256) + (h % 256) + (t \div 256) + (t % 256)) % 256

Frame(h, t, cs) == toBits(h, 16) \o toBits(t, 16) \o toBits(cs, 8)

\* The capture of a frame sent with the nominal timing: the handshake pulses,
\* then per bit a High pulse (20us for 0, 50us for 1) and a 50us Low pulse.
Encode(bits) ==
    [levels |-> <<High, Low, High, Low>>
                  \o [k \in 1..DataPulses |-> IF k % 2 = 1 THEN High ELSE Low],
     durations |-> <<30, 80, 80, 50>>
                  \o [k \in 1..DataPulses |->
                        IF k % 2 = 0 THEN 50
                        ELSE IF bits[(k + 1) \div 2] = 1 THEN 50 ELSE 20]]

\* The capture of a sensor that does not answer: the pin stays High and every
\* slot runs into its cap.
Silent ==
    [levels |-> [k \in 1..NumPulses |-> High],
     durations |-> [k \in 1..NumPulses |-> SlotCapUs]]

\* A capture with one pulse replaced.
WithPulse(c, i, lvl, dur) ==
    [levels |-> [c.levels EXCEPT ![i + 1] = lvl],
     durations |-> [c.durations EXCEPT ![i + 1] = dur]]

FrameA == Frame(40, 25, byteSum(40, 25))
FrameB == Frame(65, 30, byteSum(65, 30))
FrameBadSum == Frame(40, 25, (byteSum(40, 25) + 1) % 256)
FrameBadRange == Frame(1001, 25, byteSum(1001, 25))

\* What the pin may show during a capture.
Captures ==
    { Encode(FrameA), Encode(FrameB), Encode(FrameBadSum), Encode(FrameBadRange),
      Silent, WithPulse(Encode(FrameA), 10, High, 91) }

\* What readBits and bitsToValues make of a capture: the results of Read when
\* no pin operation fails.
convert(c, st, unit) ==
    IF decode(c).err # NoErr
    THEN [humidity |-> 0, temperature |-> 0, err |-> decode(c).err]
    ELSE bitsToValues(decode(c).bits, st, unit)

\* The same for every capture, sensor type and temperature unit.
ReadResultTable ==
    {<<st, unit, convert(c, st, unit)>> :
        st \in {"", "dht11"}, unit \in {Celsius, Fahrenheit}, c \in Captures}

\* The results of Read on a handle of sensor type st and temperature unit
\* unit when no pin operation fails.
ReadResults(st, unit) ==
    {x[3] : x \in {y \in ReadResultTable : y[1] = st /\ y[2] = unit}}

\* ------------------------------------------------------------------ state
VARIABLES
    \* the DHT handle
    temperatureUnit, sensorType, numErrors,
    sinceLastRead,      \* time.Since(dht.lastRead), ms, tracked up to MaxElapsed
    \* the process and the pin
    gc,                 \* the GC percent of the process (-1: collection disabled)
    pinState,           \* the mode the pin is in
    pinLastOp,          \* the last pin operation issued, failed or not
    pinLastOk,          \* that operation returned no error
    \* the one task that uses the handle
    op,                 \* the exported method it runs
    pc,                 \* its position
    gcPercent,          \* readBits: the saved GC percent
    rdHumidity, rdTemperature, rdErr,       \* Read: what the last call returned
    maxRetries, retryI,                     \* ReadRetry: argument and loop index
    retHumidity, retTemperature, retErr,    \* ReadRetry: its named results
    sleepDuration,      \* ReadBackground: argument, ms
    nilArgs,            \* ReadBackground: which of humidity, temperature, stop are nil
    sinceStart,         \* ReadBackground: time.Since(startTime), ms
    humidity, temperature,                  \* the caller's floats written through the pointers
    stop,               \* the stop channel: "open" or "closed"
    stoppedCloses,      \* how many times close(stopped) was executed
    \* a caller that loads the two floats
    obsHumidity, obsTemperature,
    \* history
    errsBefore,         \* numErrors when the current (last) Read started
    fails,              \* failed Reads since the last successful one, up to MaxFails
    prevCapture,        \* readBits has set lastRead at least once
    stopAtStart,        \* stop was closed already when ReadBackground started
    callReads,          \* Reads made by the current (last) ReadRetry
    succInCall,         \* one of them returned no error
    \* the interval computation on its own
    argN, resInterval,
    \* bitsToValues on its own
    cvIn,               \* the fields of the frame: [h, t, cs]
    cvOut,              \* what bitsToValues returned for it, or NoValues
    \* the decoding part of readBits on its own
    dcIn,               \* how the capture was made: [bits, shift, kind, pair, dur]
    dcCapture,          \* the levels and durations recorded
    dcOut,              \* what the decoding returned for it, or NoBits
    dcEnd,              \* endNumber of that decoding (-1: none)
    \* the busy read of readBits on its own
    cpPc,               \* its position
    cpI,                \* i
    cpLevel, cpLevelPrevious,               \* level, levelPrevious
    cpElapsed,          \* time.Since(startTime), in ticks, tracked up to CapTicks + 1
    cpCount,            \* len(levels) = len(durations)
    cpChanged,          \* some slot was closed by a change of the level
    cpTimedOut,         \* some slot was closed by its cap
    \* two handles, each used by a task of its own, in one process
    twPc,               \* the position of each task
    twGcPercent,        \* readBits of each task: the saved GC percent
    twFault,            \* a pin operation of the task has failed
    twDone              \* the task has returned from a Read

handleVars == <<temperatureUnit, sensorType, numErrors>>
hwVars == <<gc, pinState, pinLastOp, pinLastOk, gcPercent>>
rdVars == <<rdHumidity, rdTemperature, rdErr>>
retryVars == <<maxRetries, retryI, retHumidity, retTemperature, retErr>>
slotVars == <<humidity, temperature>>
bgVars == <<sleepDuration, nilArgs, stop, stoppedCloses>>
obsVars == <<obsHumidity, obsTemperature>>
histVars == <<errsBefore, fails, callReads, succInCall, stopAtStart>>
intervalVars == <<argN, resInterval>>
cvVars == <<cvIn, cvOut>>
dcVars == <<dcIn, dcCapture, dcOut, dcEnd>>
cpVars == <<cpPc, cpI, cpLevel, cpLevelPrevious, cpElapsed, cpCount, cpChanged, cpTimedOut>>
twVars == <<twPc, twGcPercent, twFault, twDone>>
fnVars == <<intervalVars, cvVars, dcVars, cpVars, twVars>>

vars == <<handleVars, sinceLastRead, hwVars, op, pc, rdVars, retryVars, slotVars,
          bgVars, sinceStart, obsVars, prevCapture, histVars, fnVars>>

MaxElapsed == MaxElapsedTicks * HalfSecondMs

\* NewDHT has returned a handle: the pin is set to output High and lastRead is
\* one second in the past; nothing has been called on the handle yet.
Init ==
    /\ temperatureUnit \in {Celsius, Fahrenheit}
    /\ sensorType \in {"", "dht11"}
    /\ numErrors = 0
    /\ sinceLastRead = WarmUpMs
    /\ gc = DefaultGCPercent /\ pinState = "outHigh" /\ pinLastOp = "outHigh"
    /\ pinLastOk = TRUE
    /\ gcPercent = DefaultGCPercent
    /\ op = "none" /\ pc = "idle"
    /\ rdHumidity = 0 /\ rdTemperature = 0 /\ rdErr = "none"
    /\ maxRetries = 0 /\ retryI = 0
    /\ retHumidity = 0 /\ retTemperature = 0 /\ retErr = NoErr
    /\ sleepDuration = 0 /\ sinceStart = 0 /\ nilArgs = {}
    /\ humidity = 0 /\ temperature = 0
    /\ stop = "open" /\ stoppedCloses = 0
    /\ obsHumidity = 0 /\ obsTemperature = 0
    /\ errsBefore = 0 /\ fails = 0
    /\ prevCapture = FALSE
    /\ callReads = 0 /\ succInCall = FALSE /\ stopAtStart = FALSE
    /\ argN = 0 /\ resInterval = -1
    /\ cvIn = [h |-> 0, t |-> 0, cs |-> 0] /\ cvOut = NoValues
    /\ dcIn = [bits |-> <<>>, shift |-> 0, kind |-> "none", pair |-> 0, dur |-> 0]
    /\ dcCapture = NoCapture /\ dcOut = NoBits /\ dcEnd = -1
    /\ cpPc = "start" /\ cpI = 0 /\ cpLevel = Low /\ cpLevelPrevious = Low
    /\ cpElapsed = 0 /\ cpCount = 0 /\ cpChanged = FALSE /\ cpTimedOut = FALSE
    /\ twPc = [h \in Handles |-> "idle"]
    /\ twGcPercent = [h \in Handles |-> DefaultGCPercent]
    /\ twFault = [h \in Handles |-> FALSE]
    /\ twDone = [h \in Handles |-> FALSE]

\* Time passes by half a second.  startTime is a local of ReadBackground.
Tick ==
    /\ sinceLastRead' = Min(sinceLastRead + HalfSecondMs, MaxElapsed)
    /\ sinceStart' = IF op = "ReadBackground"
                     THEN Min(sinceStart + HalfSecondMs, MaxSleepTicks * HalfSecondMs)
                     ELSE sinceStart
    /\ UNCHANGED <<handleVars, hwVars, op, pc, rdVars, retryVars, slotVars,
                   bgVars, obsVars, prevCapture, histVars, fnVars>>

\* ------------------------------------------------------------------- Read
\* Read returns (h, t, e) to the method that called it.
ReadReturn(h, t, e) ==
    /\ rdHumidity' = h /\ rdTemperature' = t /\ rdErr' = e
    /\ fails' = IF e = NoErr THEN 0 ELSE Min(fails + 1, MaxFails)
    /\ callReads' = IF op = "ReadRetry" THEN callReads + 1 ELSE callReads
    /\ succInCall' = (succInCall \/ (op = "ReadRetry" /\ e = NoErr))
    /\ pc' = IF op = "Read" THEN "idle"
             ELSE IF op = "ReadRetry" THEN "rr_check"
             ELSE "bg_check"
    /\ UNCHANGED <<errsBefore, stopAtStart, handleVars>>

\* An error path of readBits that leaves the pin as it is.
RestoreHigh_none ==
    UNCHANGED <<pinState, pinLastOp, pinLastOk>>

\* pin.Out(gpio.High) on an error path of readBits; its own error is dropped.
RestoreHigh ==
    /\ pinLastOp' = "outHigh"
    /\ \E ok \in BOOLEAN :
        /\ pinLastOk' = ok
        /\ pinState' = IF ok THEN "outHigh" ELSE pinState

\* Read, up to the end of time.Sleep: the named results start as zero values,
\* and the sleep ends once the time since lastRead is at least the interval.
ReadSleep ==
    /\ pc = "rd_sleep"
    /\ sinceLastRead >= minInterval(numErrors)
    /\ pc' = "rb_start"
    /\ errsBefore' = numErrors
    /\ rdHumidity' = 0 /\ rdTemperature' = 0 /\ rdErr' = NoErr
    /\ UNCHANGED <<handleVars, sinceLastRead, hwVars, op, retryVars,
                   slotVars, bgVars, sinceStart, obsVars, prevCapture, fails,
                   callReads, succInCall, stopAtStart, fnVars>>

\* readBits: lastRead = time.Now(), SetGCPercent(-1), pin.Out(gpio.Low).
ReadBitsStart ==
    /\ pc = "rb_start"
    /\ sinceLastRead' = 0
    /\ prevCapture' = TRUE
    /\ gcPercent' = gc /\ gc' = -1
    /\ \E ok \in BOOLEAN :
        IF ok
        THEN /\ pinState' = "outLow" /\ pinLastOp' = "outLow" /\ pinLastOk' = TRUE
             /\ pc' = "rb_in"
             /\ UNCHANGED <<rdVars, histVars, handleVars>>
        ELSE /\ RestoreHigh
             /\ ReadReturn(0, 0, "pin out low")
    /\ UNCHANGED <<op, retryVars, slotVars, bgVars, sinceStart, obsVars, fnVars>>

\* readBits: time.Sleep(time.Millisecond), pin.In(gpio.PullUp, gpio.NoEdge).
ReadBitsIn ==
    /\ pc = "rb_in"
    /\ \E ok \in BOOLEAN :
        IF ok
        THEN /\ pinState' = "in" /\ pinLastOp' = "in" /\ pinLastOk' = TRUE
             /\ pc' = "rb_capture"
             /\ UNCHANGED <<rdVars, histVars, handleVars>>
        ELSE /\ RestoreHigh
             /\ ReadReturn(0, 0, "pin in")
    /\ UNCHANGED <<sinceLastRead, gc, gcPercent, op, retryVars, slotVars, bgVars,
                   sinceStart, obsVars, prevCapture, fnVars>>

\* readBits from the busy read on: the pin shows one of Captures;
\* SetGCPercent(gcPercent), pin.Out(gpio.High), the decoding; then Read converts
\* the bits and returns.
ReadBitsCapture ==
    /\ pc = "rb_capture"
    /\ gc' = gcPercent
    /\ pinLastOp' = "outHigh"
    /\ \E v \in ReadResults(sensorType, temperatureUnit), ok \in BOOLEAN :
        IF ~ok
        THEN /\ pinState' = pinState /\ pinLastOk' = FALSE
             /\ ReadReturn(0, 0, "pin out high")
        ELSE /\ pinState' = "outHigh" /\ pinLastOk' = TRUE
             /\ ReadReturn(v.humidity, v.temperature, v.err)
    /\ UNCHANGED <<sinceLastRead, gcPercent, op, retryVars, slotVars, bgVars,
                   sinceStart, obsVars, prevCapture, fnVars>>

ReadStep == ReadSleep \/ ReadBitsStart \/ ReadBitsIn \/ ReadBitsCapture

\* A caller calls Read on the idle handle; the activation of an earlier
\* ReadRetry is gone.
CallRead ==
    /\ pc = "idle" /\ op \in {"none", "Read", "ReadRetry"}
    /\ op' = "Read" /\ pc' = "rd_sleep"
    /\ maxRetries' = 0 /\ retryI' = 0
    /\ retHumidity' = 0 /\ retTemperature' = 0 /\ retErr' = NoErr
    /\ callReads' = 0 /\ succInCall' = FALSE
    /\ UNCHANGED <<handleVars, sinceLastRead, hwVars, rdVars, slotVars, bgVars,
                   sinceStart, obsVars, prevCapture, errsBefore, fails,
                   stopAtStart, fnVars>>

\* --------------------------------------------------------------- ReadRetry
\* A caller calls ReadRetry(m) on the idle handle; the named results start
\* as zero values.
CallReadRetry ==
    /\ pc = "idle" /\ op \in {"none", "Read", "ReadRetry"}
    /\ \E m \in -1..MaxRetries : maxRetries' = m
    /\ op' = "ReadRetry" /\ pc' = "rr_loop"
    /\ retryI' = 0
    /\ retHumidity' = 0 /\ retTemperature' = 0 /\ retErr' = NoErr
    /\ callReads' = 0 /\ succInCall' = FALSE
    /\ UNCHANGED <<handleVars, sinceLastRead, hwVars, rdVars, slotVars, bgVars,
                   sinceStart, obsVars, prevCapture, errsBefore, fails,
                   stopAtStart, fnVars>>

\* The loop condition i < maxRetries: call Read, or fall out of the loop and
\* return the named results.
RetryLoop ==
    /\ pc = "rr_loop"
    /\ pc' = IF retryI < maxRetries THEN "rd_sleep" ELSE "idle"
    /\ UNCHANGED <<handleVars, sinceLastRead, hwVars, op, rdVars, retryVars,
                   slotVars, bgVars, sinceStart, obsVars, prevCapture, histVars, fnVars>>

\* A variant of RetryCheck that does not return on success.
RetryCheck_noReturn ==
    /\ pc = "rr_check"
    /\ retHumidity' = rdHumidity /\ retTemperature' = rdTemperature
    /\ retErr' = rdErr
    /\ retryI' = retryI + 1 /\ pc' = "rr_loop"
    /\ UNCHANGED <<handleVars, sinceLastRead, hwVars, op, rdVars, maxRetries,
                   slotVars, bgVars, sinceStart, obsVars, prevCapture, histVars, fnVars>>

\* Read has returned into the named results: return if err == nil, else i++.
RetryCheck ==
    /\ pc = "rr_check"
    /\ retHumidity' = rdHumidity /\ retTemperature' = rdTemperature
    /\ retErr' = rdErr
    /\ IF rdErr = NoErr
       THEN pc' = "idle" /\ retryI' = retryI
       ELSE pc' = "rr_loop" /\ retryI' = retryI + 1
    /\ UNCHANGED <<handleVars, sinceLastRead, hwVars, op, rdVars, maxRetries,
                   slotVars, bgVars, sinceStart, obsVars, prevCapture, histVars, fnVars>>

\* ---------------------------------------------------------- ReadBackground
\* go dht.ReadBackground(humidity, temperature, d, stop, stopped) on the fresh
\* handle, the arguments in nils being nil.  Nobody can have closed a nil stop.
BgArgs == {"humidity", "temperature", "stop"}

StartBackgroundWith(nils) ==
    /\ pc = "idle" /\ op = "none"
    /\ "stop" \in nils => stop = "open"
    /\ nilArgs' = nils
    /\ \E d \in {0, MaxSleepTicks} : sleepDuration' = d * HalfSecondMs
    /\ op' = "ReadBackground" /\ pc' = "bg_top"
    /\ stopAtStart' = (stop = "closed")
    /\ UNCHANGED <<handleVars, sinceLastRead, hwVars, rdVars, retryVars, slotVars,
                   stop, stoppedCloses, sinceStart, obsVars, prevCapture,
                   errsBefore, fails, callReads, succInCall, fnVars>>

\* go dht.ReadBackground(&humidity, &temperature, d, stop, stopped)
StartBackground == StartBackgroundWith({})

\* The same with one argument or more nil.
StartBackgroundNil == \E nils \in (SUBSET BgArgs) \ {{}} : StartBackgroundWith(nils)

\* startTime = time.Now(), then the call of Read.
BgTop ==
    /\ pc = "bg_top"
    /\ sinceStart' = 0
    /\ pc' = "rd_sleep"
    /\ UNCHANGED <<handleVars, sinceLastRead, hwVars, op, rdVars, retryVars,
                   slotVars, bgVars, obsVars, prevCapture, histVars, fnVars>>

\* A variant of BgCheck that takes a checksum failure for a result.
BgCheck_sumOk ==
    /\ pc = "bg_check"
    /\ pc' = IF rdErr \in {NoErr, "check sum fail"} THEN "bg_wrH" ELSE "bg_selerr"
    /\ UNCHANGED <<handleVars, sinceLastRead, hwVars, op, rdVars, retryVars,
                   slotVars, bgVars, sinceStart, obsVars, prevCapture, histVars, fnVars>>

\* if err == nil
BgCheck ==
    /\ pc = "bg_check"
    /\ pc' = IF rdErr = NoErr THEN "bg_wrH" ELSE "bg_selerr"
    /\ UNCHANGED <<handleVars, sinceLastRead, hwVars, op, rdVars, retryVars,
                   slotVars, bgVars, sinceStart, obsVars, prevCapture, histVars, fnVars>>

\* *humidity = humidityTemp; the store through a nil pointer panics.
BgWriteH ==
    /\ pc = "bg_wrH"
    /\ IF "humidity" \in nilArgs
       THEN humidity' = humidity /\ pc' = "panic"
       ELSE humidity' = rdHumidity /\ pc' = "bg_wrT"
    /\ UNCHANGED <<handleVars, sinceLastRead, hwVars, op, rdVars, retryVars,
                   temperature, bgVars, sinceStart, obsVars, prevCapture, histVars,
                   fnVars>>

\* *temperature = temperatureTemp; the store through a nil pointer panics.
BgWriteT ==
    /\ pc = "bg_wrT"
    /\ IF "temperature" \in nilArgs
       THEN temperature' = temperature /\ pc' = "panic"
       ELSE temperature' = rdTemperature /\ pc' = "bg_select"
    /\ UNCHANGED <<handleVars, sinceLastRead, hwVars, op, rdVars, retryVars,
                   humidity, bgVars, sinceStart, obsVars, prevCapture, histVars, fnVars>>

\* The select after a result: the case of the timer, ready once sleepDuration
\* has passed since startTime.
BgSelectTimer ==
    /\ pc = "bg_select"
    /\ sinceStart >= sleepDuration
    /\ pc' = "bg_top"
    /\ UNCHANGED <<handleVars, sinceLastRead, hwVars, op, rdVars, retryVars,
                   slotVars, bgVars, sinceStart, obsVars, prevCapture, histVars, fnVars>>

\* The select after a result: the case of stop, ready once stop is closed.
BgSelectStop ==
    /\ pc = "bg_select"
    /\ stop = "closed"
    /\ pc' = "bg_close"
    /\ UNCHANGED <<handleVars, sinceLastRead, hwVars, op, rdVars, retryVars,
                   slotVars, bgVars, sinceStart, obsVars, prevCapture, histVars, fnVars>>

\* A variant of BgErrStop that goes on with the loop.
BgErrStop_goesOn ==
    /\ pc = "bg_selerr"
    /\ stop = "closed"
    /\ pc' = "bg_top"
    /\ UNCHANGED <<handleVars, sinceLastRead, hwVars, op, rdVars, retryVars,
                   slotVars, bgVars, sinceStart, obsVars, prevCapture, histVars, fnVars>>

\* The select after a read error: the case of stop.
BgErrStop ==
    /\ pc = "bg_selerr"
    /\ stop = "closed"
    /\ pc' = "bg_close"
    /\ UNCHANGED <<handleVars, sinceLastRead, hwVars, op, rdVars, retryVars,
                   slotVars, bgVars, sinceStart, obsVars, prevCapture, histVars, fnVars>>

\* The select after a read error: the default case, taken when stop is not
\* ready.
BgErrDefault ==
    /\ pc = "bg_selerr"
    /\ stop = "open"
    /\ pc' = "bg_top"
    /\ UNCHANGED <<handleVars, sinceLastRead, hwVars, op, rdVars, retryVars,
                   slotVars, bgVars, sinceStart, obsVars, prevCapture, histVars, fnVars>>

\* A variant of BgClose that runs the loop once more after the close.
BgClose_again ==
    /\ pc = "bg_close"
    /\ stoppedCloses' = stoppedCloses + 1
    /\ pc' = IF stoppedCloses = 0 THEN "bg_top" ELSE "bg_done"
    /\ UNCHANGED <<handleVars, sinceLastRead, hwVars, op, rdVars, retryVars,
                   slotVars, sleepDuration, nilArgs, stop, sinceStart, obsVars, prevCapture,
                   histVars, fnVars>>

\* close(stopped), and ReadBackground returns.
BgClose ==
    /\ pc = "bg_close"
    /\ stoppedCloses' = stoppedCloses + 1
    /\ pc' = "bg_done"
    /\ UNCHANGED <<handleVars, sinceLastRead, hwVars, op, rdVars, retryVars,
                   slotVars, sleepDuration, nilArgs, stop, sinceStart, obsVars, prevCapture,
                   histVars, fnVars>>

BgStep ==
    \/ BgTop \/ BgCheck \/ BgWriteH \/ BgWriteT
    \/ BgSelectTimer \/ BgSelectStop \/ BgErrStop \/ BgErrDefault \/ BgClose

\* The caller closes stop, before or after it has started ReadBackground; a
\* nil stop cannot be closed.
CloseStop ==
    /\ stop = "open" /\ "stop" \notin nilArgs
    /\ op \in {"none", "ReadBackground"}
    /\ stop' = "closed"
    /\ UNCHANGED <<handleVars, sinceLastRead, hwVars, op, pc, rdVars, retryVars,
                   slotVars, sleepDuration, nilArgs, stoppedCloses, sinceStart, obsVars,
                   prevCapture, histVars, fnVars>>

\* The caller loads its two floats while ReadBackground runs.
Observe ==
    /\ op = "ReadBackground"
    /\ obsHumidity' = humidity /\ obsTemperature' = temperature
    /\ UNCHANGED <<handleVars, sinceLastRead, hwVars, op, pc, rdVars, retryVars,
                   slotVars, bgVars, sinceStart, prevCapture, histVars, fnVars>>

\* ---------------------------------------------------------- specifications
\* Read and ReadRetry called one after the other on one handle.
NextRead == Tick \/ CallRead \/ CallReadRetry \/ RetryLoop \/ RetryCheck \/ ReadStep

Spec == Init /\ [][NextRead]_vars

\* ReadBackground on a fresh handle, its caller closing stop at any time and
\* loading the two floats.
NextBg == Tick \/ StartBackground \/ ReadStep \/ BgStep \/ CloseStop \/ Observe

SpecBg == Init /\ [][NextBg]_vars

\* The ReadBackground task and the stop signal alone, with the scheduling of a
\* Go program: time passes, a runnable task runs, and a select whose stop case
\* is ready again and again takes it at some time (select chooses among its
\* ready cases at random).
NextTask == Tick \/ StartBackground \/ ReadStep \/ BgStep \/ CloseStop

FairBg ==
    /\ Init /\ [][NextTask]_vars
    /\ WF_vars(Tick)
    /\ WF_vars(ReadStep)
    /\ WF_vars(BgStep)
    /\ SF_vars(BgSelectStop)

\* The ReadBackground task started with any arguments, nil or not.
NextNil == Tick \/ StartBackground \/ StartBackgroundNil \/ ReadStep \/ BgStep \/ CloseStop

SpecNil == Init /\ [][NextNil]_vars

\* The interval computation of Read, applied to a failure count.
InitInterval ==
    /\ Init
    /\ temperatureUnit = Celsius /\ sensorType = ""

ChooseN ==
    /\ \E n \in 0..MaxN : argN' = n
    /\ resInterval' = -1
    /\ UNCHANGED <<handleVars, sinceLastRead, hwVars, op, pc, rdVars, retryVars,
                   slotVars, bgVars, sinceStart, obsVars, prevCapture, histVars,
                   cvVars, dcVars, cpVars, twVars>>

ComputeInterval ==
    /\ resInterval = -1
    /\ resInterval' = minInterval(argN)
    /\ UNCHANGED <<handleVars, sinceLastRead, hwVars, op, pc, rdVars, retryVars,
                   slotVars, bgVars, sinceStart, obsVars, prevCapture, histVars, argN,
                   cvVars, dcVars, cpVars, twVars>>

NextInterval == ChooseN \/ ComputeInterval

SpecInterval == InitInterval /\ [][NextInterval]_vars

\* bitsToValues applied to a frame.  The fields are drawn around the limits of
\* the range tests and the sign bit of the temperature field (32818 = 0x8032,
\* 33168 = 0x8000 + 400, 65136 = 0x10000 - 400); the checksum byte is the byte sum of
\* the data bytes plus a difference.
HumidityFields == {0, 40, 100, 101, 1000, 1001, 65535}
TemperatureFields == {0, 25, 50, 51, 800, 801, 32818, 33168, 33169, 65135, 65136, 65535}
ChecksumDiffs == {0, 1, 255}

ChooseFrame ==
    /\ \E h \in HumidityFields, t \in TemperatureFields, d \in ChecksumDiffs :
        cvIn' = [h |-> h, t |-> t, cs |-> (byteSum(h, t) + d) % 256]
    /\ cvOut' = NoValues
    /\ UNCHANGED <<handleVars, sinceLastRead, hwVars, op, pc, rdVars, retryVars,
                   slotVars, bgVars, sinceStart, obsVars, prevCapture, histVars,
                   intervalVars, dcVars, cpVars, twVars>>

ConvertFrame ==
    /\ cvOut = NoValues
    /\ cvOut' = bitsToValues(Frame(cvIn.h, cvIn.t, cvIn.cs), sensorType, temperatureUnit)
    /\ UNCHANGED <<handleVars, sinceLastRead, hwVars, op, pc, rdVars, retryVars,
                   slotVars, bgVars, sinceStart, obsVars, prevCapture, histVars,
                   intervalVars, cvIn, dcVars, cpVars, twVars>>

NextConvert == ChooseFrame \/ ConvertFrame

SpecConvert == Init /\ [][NextConvert]_vars

\* The decoding part of readBits applied to a capture.  A capture holds the
\* 80 data pulses of a bit pattern from Go index shift on: before them the
\* last pulses of the handshake, after them slots in which the idle pin stays
\* High up to the cap (shift = HandshakePulses is the full capture, shift = -1
\* has lost its first data pulse).  One data pulse may have another duration.
Shifted(bits, shift) ==
    LET full == Encode(bits)
        j(i) == i - 1 - shift
    IN  [levels |-> [i \in 1..NumPulses |->
                        IF j(i) >= DataPulses THEN High
                        ELSE IF j(i) % 2 = 0 THEN High ELSE Low],
         durations |-> [i \in 1..NumPulses |->
                        IF j(i) >= DataPulses THEN SlotCapUs
                        ELSE full.durations[j(i) + HandshakePulses + 1]]]

Patterns ==
    { FrameA, FrameB, [k \in 1..40 |-> 0], [k \in 1..40 |-> 1],
      [k \in 1..40 |-> k % 2], [k \in 1..40 |-> (k + 1) % 2] }
Shifts == -1..HandshakePulses
Pairs == {0, 1, 20, 39}
HighDurations == {0, 20, 30, 31, 50, 90, 91, SlotCapUs}
LowDurations == {0, 34, 35, 50, 70, 71, SlotCapUs}

ChooseCapture ==
    /\ \/ \E b \in Patterns, s \in Shifts :
            /\ dcIn' = [bits |-> b, shift |-> s, kind |-> "nominal", pair |-> 0, dur |-> 0]
            /\ dcCapture' = Shifted(b, s)
       \/ \E b \in Patterns, k \in Pairs, d \in HighDurations :
            /\ dcIn' = [bits |-> b, shift |-> HandshakePulses, kind |-> "high",
                        pair |-> k, dur |-> d]
            /\ dcCapture' = WithPulse(Encode(b), HandshakePulses + 2 * k, High, d)
       \/ \E b \in Patterns, k \in Pairs, d \in LowDurations :
            /\ dcIn' = [bits |-> b, shift |-> HandshakePulses, kind |-> "low",
                        pair |-> k, dur |-> d]
            /\ dcCapture' = WithPulse(Encode(b), HandshakePulses + 2 * k + 1, Low, d)
    /\ dcOut' = NoBits /\ dcEnd' = -1
    /\ UNCHANGED <<handleVars, sinceLastRead, hwVars, op, pc, rdVars, retryVars,
                   slotVars, bgVars, sinceStart, obsVars, prevCapture, histVars,
                   intervalVars, cvVars, cpVars, twVars>>

DecodeCapture ==
    /\ dcCapture # NoCapture /\ dcOut = NoBits
    /\ dcOut' = decode(dcCapture)
    /\ dcEnd' = lastLow(dcCapture, Len(dcCapture.levels) - 1)
    /\ UNCHANGED <<handleVars, sinceLastRead, hwVars, op, pc, rdVars, retryVars,
                   slotVars, bgVars, sinceStart, obsVars, prevCapture, histVars,
                   intervalVars, cvVars, dcIn, dcCapture, cpVars, twVars>>

NextDecode == ChooseCapture \/ DecodeCapture

SpecDecode == InitInterval /\ [][NextDecode]_vars

\* The busy read of readBits, statement by statement.  The pin may show any
\* level at any pin.Read; the cap of a slot, one millisecond, is CapTicks ticks
\* of the clock, and every pass through the inner loop takes one tick or more.
\* levelPrevious = dht.pin.Read(); level = levelPrevious; i = 0
CaptureStart ==
    /\ cpPc = "start"
    /\ \E l \in {High, Low} : cpLevelPrevious' = l /\ cpLevel' = l
    /\ cpI' = 0
    /\ cpPc' = "for"
    /\ UNCHANGED <<handleVars, sinceLastRead, hwVars, op, pc, rdVars, retryVars,
                   slotVars, bgVars, sinceStart, obsVars, prevCapture, histVars,
                   intervalVars, cvVars, dcVars, cpElapsed, cpCount, cpChanged,
                   cpTimedOut, twVars>>

\* i < 84: startTime = time.Now(), or the end of the loop.
CaptureFor ==
    /\ cpPc = "for"
    /\ IF cpI < NumPulses
       THEN cpElapsed' = 0 /\ cpPc' = "poll"
       ELSE cpElapsed' = cpElapsed /\ cpPc' = "done"
    /\ UNCHANGED <<handleVars, sinceLastRead, hwVars, op, pc, rdVars, retryVars,
                   slotVars, bgVars, sinceStart, obsVars, prevCapture, histVars,
                   intervalVars, cvVars, dcVars, cpI, cpLevel, cpLevelPrevious,
                   cpCount, cpChanged, cpTimedOut, twVars>>

\* levelPrevious == level && time.Since(startTime) < time.Millisecond: one more
\* pin.Read, or the end of the inner loop.
CapturePoll ==
    /\ cpPc = "poll"
    /\ IF cpLevelPrevious = cpLevel /\ cpElapsed < CapTicks
       THEN /\ \E l \in {High, Low} : cpLevel' = l
            /\ \E e \in (cpElapsed + 1)..(CapTicks + 1) : cpElapsed' = e
            /\ cpPc' = "poll"
       ELSE /\ cpLevel' = cpLevel /\ cpElapsed' = cpElapsed
            /\ cpPc' = "append"
    /\ UNCHANGED <<handleVars, sinceLastRead, hwVars, op, pc, rdVars, retryVars,
                   slotVars, bgVars, sinceStart, obsVars, prevCapture, histVars,
                   intervalVars, cvVars, dcVars, cpI, cpLevelPrevious, cpCount,
                   cpChanged, cpTimedOut, twVars>>

\* A variant of CaptureAppend that ends the capture after a slot that ran into
\* its cap.
CaptureAppend_endsOnTimeout ==
    /\ cpPc = "append"
    /\ cpCount' = cpCount + 1
    /\ cpChanged' = (cpChanged \/ cpLevel # cpLevelPrevious)
    /\ cpTimedOut' = (cpTimedOut \/ cpLevel = cpLevelPrevious)
    /\ cpLevelPrevious' = cpLevel
    /\ cpI' = cpI + 1
    /\ cpPc' = IF cpLevel = cpLevelPrevious THEN "done" ELSE "for"
    /\ UNCHANGED <<handleVars, sinceLastRead, hwVars, op, pc, rdVars, retryVars,
                   slotVars, bgVars, sinceStart, obsVars, prevCapture, histVars,
                   intervalVars, cvVars, dcVars, cpLevel, cpElapsed, twVars>>

\* The two appends, levelPrevious = level, i++.  The inner loop was left with
\* the level unchanged only when the cap was hit.
CaptureAppend ==
    /\ cpPc = "append"
    /\ cpCount' = cpCount + 1
    /\ cpChanged' = (cpChanged \/ cpLevel # cpLevelPrevious)
    /\ cpTimedOut' = (cpTimedOut \/ cpLevel = cpLevelPrevious)
    /\ cpLevelPrevious' = cpLevel
    /\ cpI' = cpI + 1
    /\ cpPc' = "for"
    /\ UNCHANGED <<handleVars, sinceLastRead, hwVars, op, pc, rdVars, retryVars,
                   slotVars, bgVars, sinceStart, obsVars, prevCapture, histVars,
                   intervalVars, cvVars, dcVars, cpLevel, cpElapsed, twVars>>

NextCapture == CaptureStart \/ CaptureFor \/ CapturePoll \/ CaptureAppend

SpecCapture == InitInterval /\ [][NextCapture]_vars

\* Two handles on two pins, each used by one task that calls Read again and
\* again; the GC percent belongs to the process.  Of a Read only the steps of
\* readBits that touch the GC percent or may return are kept: its sleep, its
\* pin levels and its decoding change nothing that the other task reads.
\* Read on handle h gets to readBits.
TwoCallRead ==
    \E h \in Handles :
        /\ twPc[h] = "idle"
        /\ twPc' = [twPc EXCEPT ![h] = "rb_start"]
        /\ UNCHANGED <<handleVars, sinceLastRead, hwVars, op, pc, rdVars, retryVars,
                       slotVars, bgVars, sinceStart, obsVars, prevCapture, histVars,
                       intervalVars, cvVars, dcVars, cpVars, twGcPercent, twFault,
                       twDone>>

\* gcPercent := debug.SetGCPercent(-1), pin.Out(gpio.Low).
TwoReadBitsStart ==
    \E h \in Handles, ok \in BOOLEAN :
        /\ twPc[h] = "rb_start"
        /\ twGcPercent' = [twGcPercent EXCEPT ![h] = gc]
        /\ gc' = -1
        /\ twPc' = [twPc EXCEPT ![h] = IF ok THEN "rb_in" ELSE "idle"]
        /\ twFault' = [twFault EXCEPT ![h] = @ \/ ~ok]
        /\ twDone' = [twDone EXCEPT ![h] = @ \/ ~ok]
        /\ UNCHANGED <<handleVars, sinceLastRead, pinState, pinLastOp, pinLastOk,
                       gcPercent, op, pc, rdVars, retryVars, slotVars, bgVars,
                       sinceStart, obsVars, prevCapture, histVars, intervalVars,
                       cvVars, dcVars, cpVars>>

\* time.Sleep(time.Millisecond), pin.In(gpio.PullUp, gpio.NoEdge).
TwoReadBitsIn ==
    \E h \in Handles, ok \in BOOLEAN :
        /\ twPc[h] = "rb_in"
        /\ twPc' = [twPc EXCEPT ![h] = IF ok THEN "rb_capture" ELSE "idle"]
        /\ twFault' = [twFault EXCEPT ![h] = @ \/ ~ok]
        /\ twDone' = [twDone EXCEPT ![h] = @ \/ ~ok]
        /\ UNCHANGED <<handleVars, sinceLastRead, hwVars, op, pc, rdVars, retryVars,
                       slotVars, bgVars, sinceStart, obsVars, prevCapture, histVars,
                       intervalVars, cvVars, dcVars, cpVars, twGcPercent>>

\* The busy read, debug.SetGCPercent(gcPercent), pin.Out(gpio.High), and the
\* rest of the Read up to its return.
TwoReadBitsCapture ==
    \E h \in Handles, ok \in BOOLEAN :
        /\ twPc[h] = "rb_capture"
        /\ gc' = twGcPercent[h]
        /\ twPc' = [twPc EXCEPT ![h] = "idle"]
        /\ twFault' = [twFault EXCEPT ![h] = @ \/ ~ok]
        /\ twDone' = [twDone EXCEPT ![h] = TRUE]
        /\ UNCHANGED <<handleVars, sinceLastRead, pinState, pinLastOp, pinLastOk,
                       gcPercent, op, pc, rdVars, retryVars, slotVars, bgVars,
                       sinceStart, obsVars, prevCapture, histVars, intervalVars,
                       cvVars, dcVars, cpVars, twGcPercent>>

NextTwo == TwoCallRead \/ TwoReadBitsStart \/ TwoReadBitsIn \/ TwoReadBitsCapture

SpecTwo == Init /\ [][NextTwo]_vars

\* ------------------------------------------------------------- properties
InReadBits == {"rb_start", "rb_in", "rb_capture"}

\* C1: after a Read has returned, numErrors is 0 if it returned no error and
\* one more than when it was called if it returned an error.
C1_NumErrorsCountsFailures ==
    (rdErr # "none" /\ pc \notin InReadBits) =>
        IF rdErr = NoErr THEN numErrors = 0 ELSE numErrors = errsBefore + 1

\* C2: a capture attempt that follows another one starts (readBits sets
\* lastRead) no earlier than min(2s + f * 0.5s, 30s) after it, f being the
\* number of failed Reads since the last successful one.
C2_SpacingGrowsWithFailures ==
    [][(pc = "rb_start" /\ pc' # "rb_start" /\ prevCapture) =>
        sinceLastRead >= Min(TwoSecondsMs + fails * HalfSecondMs, ThirtySecondsMs)]_vars

\* C3: the interval computed from a failure count n >= 0 is
\* min(2s + n * 0.5s, 30s): 2s, 2.5s and 3s for 0, 1 and 2, non-decreasing in
\* n, 30s from 56 on and never more than 30s.
C3_Interval ==
    resInterval # -1 =>
        /\ resInterval = Min(2000 + argN * 500, 30000)
        /\ resInterval <= 30000
        /\ argN >= 56 => resInterval = 30000
        /\ argN = 0 => resInterval = 2000
        /\ argN = 1 => resInterval = 2500
        /\ argN = 2 => resInterval = 3000
        /\ \A m \in 0..argN : minInterval(m) <= resInterval

\* The interval was computed for a count beyond the point of saturation.
C3_Witness == argN = 57 /\ resInterval = 30000

\* C4: ReadRetry(maxRetries >= 1) makes at most maxRetries Reads, makes no
\* Read after one that returned no error and returns what that Read returned;
\* it returns an error only after maxRetries failed Reads, and then the error
\* of the last one.
C4_ReadRetry ==
    (op = "ReadRetry" /\ maxRetries >= 1) =>
        /\ callReads <= maxRetries
        /\ succInCall => pc \in {"rr_check", "idle"}
        /\ pc = "idle" =>
            /\ callReads >= 1
            /\ retErr = rdErr
            /\ retHumidity = rdHumidity /\ retTemperature = rdTemperature
            /\ (retErr = NoErr) <=> succInCall
            /\ retErr # NoErr => callReads = maxRetries

\* ReadRetry(2) has returned the reading of its second Read, the first having
\* failed.
C4_Witness ==
    /\ op = "ReadRetry" /\ pc = "idle" /\ maxRetries = 2
    /\ callReads = 2 /\ retErr = NoErr /\ retHumidity # 0

\* C5: when stop is closed already as ReadBackground starts, ReadBackground
\* never writes to the two floats.
C5_NoWriteWhenStoppedAtStart ==
    [][stopAtStart => UNCHANGED slotVars]_vars

\* C6: once stop is closed while ReadBackground runs, ReadBackground closes
\* stopped at some time.
C6_StopLeadsToStopped ==
    (op = "ReadBackground" /\ stop = "closed") ~> (stoppedCloses = 1)

\* ReadBackground has returned after a failed Read, stop having been closed
\* while it ran.
C6_Witness ==
    /\ pc = "bg_done" /\ stoppedCloses = 1
    /\ ~stopAtStart /\ rdErr \notin {NoErr, "none"}

\* C7: a select of ReadBackground that is reached or left while stop is closed
\* leaves the loop, so that no Read is started after it.
C7_NoReadAfterStopSeen ==
    [][(pc = "bg_select" /\ stop = "closed" /\ pc' # pc) => pc' = "bg_close"]_vars

\* C8: ReadBackground changes the two floats only to the values of a Read that
\* returned no error, goes on with the loop after a Read that returned an
\* error, and leaves the loop only when stop is closed.
C8_FailedReadKeepsSlots ==
    /\ [](pc \in {"bg_close", "bg_done"} => stop = "closed")
    /\ [][/\ slotVars' # slotVars => rdErr = NoErr
          /\ humidity' # humidity => humidity' = rdHumidity
          /\ temperature' # temperature => temperature' = rdTemperature
          /\ (pc = "bg_check" /\ rdErr # NoErr) => pc' \in {"bg_check", "bg_selerr"}
          /\ (pc = "bg_selerr" /\ stop = "open") => pc' \in {"bg_selerr", "bg_top"}]_vars

\* After a reading was written, a Read has failed its checksum and the loop
\* goes on, the floats still holding the reading.
C8_Witness ==
    /\ pc = "bg_top" /\ rdErr = "check sum fail"
    /\ humidity # 0 /\ rdHumidity # 0

\* The readings a Read of this handle can return without an error.
ValidReadings == {v \in ReadResults(sensorType, temperatureUnit) : v.err = NoErr}

\* C9: the caller never loads a humidity of one reading together with the
\* temperature of another one.
C9_NoTornObservation ==
    ~ \E r1, r2 \in ValidReadings :
        /\ r1 # r2
        /\ obsHumidity = r1.humidity /\ obsTemperature = r2.temperature
        /\ \A r \in ValidReadings :
            ~(obsHumidity = r.humidity /\ obsTemperature = r.temperature)

\* C10: stopped is closed once, by the statement after the loop, and from
\* then on the task makes no step: no Read, no pin operation, no write to the
\* two floats.
C10_StoppedOnceAndFinal ==
    /\ [](stoppedCloses <= 1 /\ (stoppedCloses = 1 => pc = "bg_done"))
    /\ [][/\ stoppedCloses' # stoppedCloses => (pc = "bg_close" /\ pc' = "bg_done")
          /\ stoppedCloses >= 1 =>
                UNCHANGED <<pc, hwVars, slotVars, rdVars, prevCapture, stoppedCloses>>]_vars

\* stopped is closed after readings were written, and time has passed since.
C10_Witness ==
    /\ stoppedCloses = 1 /\ pc = "bg_done"
    /\ humidity # 0 /\ sinceLastRead = MaxElapsed

\* The temperature field read as sign and magnitude: the top bit is the sign,
\* the low 15 bits are the magnitude.
signMagnitude(t) == IF t >= 32768 THEN -(t - 32768) ELSE t

\* The fields of the converted frame lie in the legal range of the sensor type.
FieldsInRange ==
    IF sensorType # "dht11"
    THEN cvIn.h \in 0..1000 /\ signMagnitude(cvIn.t) \in -400..800
    ELSE cvIn.h \in 0..100 /\ signMagnitude(cvIn.t) \in 0..50

\* The checksum byte of the converted frame is the byte sum of its data bytes.
ChecksumRight == cvIn.cs = byteSum(cvIn.h, cvIn.t)

RangeErrors == {"bad humidity", "bad temperature"}

\* C11: the temperature field is read as sign and magnitude: on a handle of
\* the generic type in Celsius a frame with a right checksum, a legal humidity
\* and a temperature field of legal magnitude converts without error to a
\* tenth of the signed magnitude, 0x8032 to -5.0 and 0x0032 to +5.0.
C11_SignMagnitude ==
    (/\ cvOut.err # NoOut /\ sensorType = "" /\ temperatureUnit = Celsius
     /\ ChecksumRight /\ FieldsInRange) =>
        /\ cvOut.err = NoErr
        /\ cvOut.temperature * 10 = signMagnitude(cvIn.t) * ValueScale
        /\ cvIn.t = 32818 => cvOut.temperature = -5 * ValueScale
        /\ cvIn.t = 50 => cvOut.temperature = 5 * ValueScale

\* C12: for a frame whose fields lie in the legal range of the sensor type,
\* bitsToValues returns the checksum error exactly when the checksum byte
\* differs from the byte sum of the four data bytes.
C12_ChecksumErrorIff ==
    (cvOut.err # NoOut /\ FieldsInRange) =>
        (cvOut.err = "check sum fail" <=> ~ChecksumRight)

\* C13: for a frame that fails the checksum test and the range test, the
\* error of bitsToValues is the checksum error.
C13_BothFailGivesChecksumError ==
    (cvOut.err # NoOut /\ ~ChecksumRight /\ ~FieldsInRange) =>
        cvOut.err = "check sum fail"

\* C14: for a frame with a right checksum, bitsToValues returns a range error
\* exactly when the humidity or the temperature lies outside the legal range
\* of the sensor type; 1000 (generic humidity) and 50 (dht11 temperature)
\* pass, 1001 and 51 do not.
C14_RangeErrorIff ==
    (cvOut.err # NoOut /\ ChecksumRight) =>
        (cvOut.err \in RangeErrors <=> ~FieldsInRange)

\* The Go indices of the Low pulses of the decoded capture.
LowIndices == {i \in 0..(NumPulses - 1) : LevelAt(dcCapture, i) = Low}
LastLowIndex == CHOOSE i \in LowIndices : \A j \in LowIndices : j <= i

\* C15: in a full capture of nominal timing in which the High pulse of one
\* data pair lasts d, the decoding fails with "high level duration too long"
\* when d > 90us and else succeeds, the bit of the pair being 1 exactly when
\* d > 30us; in one in which the Low pulse of a pair lasts d, it fails with
\* "low level duration too short" when d < 35us, with "low level duration too
\* long" when d > 70us, and else succeeds.
C15_PulseThresholds ==
    /\ (dcOut.err # NoOut /\ dcIn.kind = "high") =>
            IF dcIn.dur > 90 THEN dcOut.err = "high level duration too long"
            ELSE /\ dcOut.err = NoErr
                 /\ dcOut.bits[dcIn.pair + 1] = (IF dcIn.dur > 30 THEN 1 ELSE 0)
                 /\ \A k \in 1..40 : k # dcIn.pair + 1 => dcOut.bits[k] = dcIn.bits[k]
    /\ (dcOut.err # NoOut /\ dcIn.kind = "low") =>
            IF dcIn.dur < 35 THEN dcOut.err = "low level duration too short"
            ELSE IF dcIn.dur > 70 THEN dcOut.err = "low level duration too long"
            ELSE dcOut.err = NoErr /\ dcOut.bits = dcIn.bits

\* A High pulse of 90us was decoded as a 1 in the place of a 0.
C15_Witness ==
    /\ dcIn.kind = "high" /\ dcIn.dur = 90 /\ dcIn.bits[dcIn.pair + 1] = 0
    /\ dcOut.err = NoErr /\ dcOut.bits[dcIn.pair + 1] = 1

\* C16: the full capture of a 40-bit pattern sent with the nominal timing (a
\* High pulse of 20us for 0 and of 50us for 1, Low pulses of 50us, the last
\* pulse Low) is decoded without error into that pattern.
C16_RoundTrip ==
    (dcOut.err # NoOut /\ dcCapture = Encode(dcIn.bits)) =>
        /\ LevelAt(dcCapture, NumPulses - 1) = Low
        /\ dcOut = [err |-> NoErr, bits |-> dcIn.bits]

\* The capture of a pattern of alternating bits was decoded.
C16_Witness ==
    /\ dcOut.err = NoErr /\ dcCapture = Encode(dcIn.bits)
    /\ dcIn.bits = [k \in 1..40 |-> k % 2] /\ dcOut.bits = dcIn.bits

\* C17 as stated: the decoding fails with "low level not found" exactly when
\* no pulse at an index of 80 or more is Low; when it goes on, endNumber is the
\* index of the last Low pulse and is at least 80.
C17_LowFrom80 ==
    dcOut.err # NoOut =>
        /\ dcOut.err = "low level not found" <=> (\A i \in LowIndices : i < 80)
        /\ dcOut.err # "low level not found" => (dcEnd = LastLowIndex /\ dcEnd >= 80)

\* C17, amended: the decoding fails with "low level not found" exactly when no
\* pulse at an index of 79 or more is Low; when it goes on, endNumber is the
\* index of the last Low pulse and is at least 79, and the bits are read off
\* the High pulses at endNumber - 79, endNumber - 77, ...
C17_LowFrom79 ==
    dcOut.err # NoOut =>
        /\ dcOut.err = "low level not found" <=> (\A i \in LowIndices : i < 79)
        /\ dcOut.err # "low level not found" => (dcEnd = LastLowIndex /\ dcEnd >= 79)
        /\ dcOut.err = NoErr =>
                \A k \in 0..39 :
                    dcOut.bits[k + 1] = (IF DurAt(dcCapture, dcEnd - 79 + 2 * k) > 30 THEN 1 ELSE 0)

\* A capture whose last Low pulse is at index 79 was decoded without error.
C17_Witness ==
    /\ dcOut.err = NoErr /\ dcEnd = 79 /\ LastLowIndex = 79
    /\ dcOut.bits = dcIn.bits /\ dcIn.bits = FrameA

\* C18: when no capture attempt is in progress, the last pin operation issued
\* is the setting to output High (by NewDHT or by readBits on each of its
\* ways out), and when that operation succeeded the pin is an output at High.
C18_PinRestoredHigh ==
    pc \notin InReadBits =>
        /\ pinLastOp = "outHigh"
        /\ pinLastOk => pinState = "outHigh"

\* A Read has returned the error of pin.In, the pin set back to High.
C18_Witness ==
    /\ pc = "idle" /\ op = "Read" /\ rdErr = "pin in"
    /\ pinLastOp = "outHigh" /\ pinLastOk /\ pinState = "outHigh"

\* C19: when no capture attempt is in progress, the GC percent of the process
\* is the one that the last readBits found when it started.
C19_GCRestored ==
    pc \notin InReadBits => gc = gcPercent

\* C20: ReadBackground with a nil humidity, temperature or stop starts no
\* capture attempt.
C20_NilStartsNoRead ==
    (op = "ReadBackground" /\ nilArgs # {}) =>
        (pc \notin InReadBits /\ ~prevCapture)

\* C22: ReadRetry returns a nil error only when one of the Reads it made
\* returned no error, whatever maxRetries is.
C22_NilOnlyAfterSuccess ==
    (op = "ReadRetry" /\ pc = "idle" /\ retErr = NoErr) => succInCall

\* The steps the busy read has left at most: it falls with every step.
cpMeasure ==
    LET slot == CapTicks + 4
        left == (NumPulses - cpI) * slot
    IN  IF cpPc = "start" THEN NumPulses * slot + 2
        ELSE IF cpPc = "for" THEN left + 1
        ELSE IF cpPc = "poll" THEN left - cpElapsed
        ELSE IF cpPc = "append" THEN left - (CapTicks + 2)
        ELSE 0

\* C21: the busy read ends whatever the pin shows (every step of it lowers a
\* measure that is never negative), and it has recorded 84 pulses when it has
\* ended; a slot ends only when the level has changed or the cap of the slot
\* is reached, it ends then, and each slot ended adds one pulse and goes on
\* with the loop.
C21_CaptureTerminates ==
    /\ [](/\ cpMeasure >= 0
          /\ cpCount = cpI
          /\ cpPc = "done" => cpCount = 84)
    /\ [][cpVars' # cpVars =>
            /\ cpMeasure' < cpMeasure
            /\ (cpPc = "poll" /\ cpPc' = "append") =>
                    (cpLevel # cpLevelPrevious \/ cpElapsed >= CapTicks)
            /\ (cpPc = "poll" /\ (cpLevel # cpLevelPrevious \/ cpElapsed >= CapTicks)) =>
                    cpPc' = "append"
            /\ cpPc = "append" => (cpPc' = "for" /\ cpCount' = cpCount + 1)]_vars

\* The busy read has ended on a pin whose level never changed: every slot ran
\* into its cap.
C21_Witness ==
    /\ cpPc = "done" /\ cpCount = 84
    /\ cpTimedOut /\ ~cpChanged

\* C23: when both tasks have returned from their Reads, none is in readBits
\* and no pin operation has failed, the GC percent of the process is the one
\* it had before the first Read.
C23_GCRestoredAfterTwo ==
    (\A h \in Handles : twPc[h] = "idle" /\ twDone[h] /\ ~twFault[h]) =>
        gc = DefaultGCPercent

====
